---- MODULE Spec2Model ----
(***************************************************************************)
(* A model of scripts/update_ccf_deadlines.py: the script that fetches the *)
(* YAML records of the target conferences, normalises their deadlines to   *)
(* UTC, picks the latest edition of each conference, classifies it as      *)
(* open / on_the_way / finished and writes the sorted HTML table.          *)
(*                                                                         *)
(* Representation.                                                         *)
(*   - A Python str is a sequence of one-character strings, so that        *)
(*     strip, upper, split and the regular expressions are computed on the *)
(*     characters, as the code computes them.                              *)
(*   - A datetime.date is [ord |-> its proleptic Gregorian ordinal].       *)
(*   - A datetime.datetime is [day |-> ordinal, sec |-> second of the day].*)
(*   - Python's None is the record None; a function that may raise returns *)
(*     [exc |-> "<exception name>"] instead of a value.                    *)
(*   - A YAML scalar is [int |-> n], [str |-> s] or None.                  *)
(***************************************************************************)
EXTENDS Integers, Sequences, FiniteSets, TLC

VARIABLES pc, idx, now_utc, remote, data, rows, fetches, out, exc, inp, res

vars == <<pc, idx, now_utc, remote, data, rows, fetches, out, exc, inp, res>>

None == [none |-> TRUE]

Raise(e) == [exc |-> e]

IsExc(v) == DOMAIN v = {"exc"}

(***************************************************************************)
(* Characters and strings.                                                 *)
(***************************************************************************)
LowerCase == <<"a","b","c","d","e","f","g","h","i","j","k","l","m",
               "n","o","p","q","r","s","t","u","v","w","x","y","z">>

UpperCase == <<"A","B","C","D","E","F","G","H","I","J","K","L","M",
               "N","O","P","Q","R","S","T","U","V","W","X","Y","Z">>

DigitChars == <<"0","1","2","3","4","5","6","7","8","9">>

Range(s) == { s[i] : i \in DOMAIN s }

IndexIn(c, s) == CHOOSE i \in DOMAIN s : s[i] = c

IsLower(c) == c \in Range(LowerCase)

IsUpper(c) == c \in Range(UpperCase)

\* [A-Za-z]
IsAlpha(c) == IsLower(c) \/ IsUpper(c)

\* \d
IsDigit(c) == c \in Range(DigitChars)

\* \s, and the characters str.strip() and str.split() drop
IsSpace(c) == c \in {" ", "\t", "\n"}

\* [-\u2013]: the hyphen and the en dash (U+2013, written "ndash" here)
IsDash(c) == c \in {"-", "ndash"}

DigitVal(c) == IndexIn(c, DigitChars) - 1

\* int() of a string of decimal digits
RECURSIVE IntOf(_)
IntOf(s) == IF s = <<>> THEN 0
            ELSE 10 * IntOf(SubSeq(s, 1, Len(s) - 1)) + DigitVal(s[Len(s)])

AllDigits(s) == \A i \in DOMAIN s : IsDigit(s[i])

\* str.upper()
UpperChar(c) == IF IsLower(c) THEN UpperCase[IndexIn(c, LowerCase)] ELSE c

UpperStr(s) == [i \in DOMAIN s |-> UpperChar(s[i])]

\* str.strip()
RECURSIVE LStrip(_)
LStrip(s) == IF s # <<>> /\ IsSpace(s[1]) THEN LStrip(Tail(s)) ELSE s

RECURSIVE RStrip(_)
RStrip(s) == IF s # <<>> /\ IsSpace(s[Len(s)])
             THEN RStrip(SubSeq(s, 1, Len(s) - 1)) ELSE s

Strip(s) == RStrip(LStrip(s))

\* The end (exclusive) of the longest run of characters from position i on
\* that are spaces (kind "s"), digits ("d") or letters ("a").
KindOk(kind, c) == CASE kind = "s" -> IsSpace(c)
                     [] kind = "d" -> IsDigit(c)
                     [] kind = "a" -> IsAlpha(c)

RECURSIVE RunEnd(_, _, _)
RunEnd(s, i, kind) == IF i <= Len(s) /\ KindOk(kind, s[i])
                      THEN RunEnd(s, i + 1, kind) ELSE i

\* str.split(): the maximal runs of non-space characters
RECURSIVE Split(_)
Split(s) ==
    LET t == LStrip(s) IN
    IF t = <<>> THEN <<>>
    ELSE LET e == CHOOSE j \in 1..(Len(t) + 1) :
                      /\ \A k \in 1..(j - 1) : ~IsSpace(t[k])
                      /\ j > 1
                      /\ (j = Len(t) + 1 \/ IsSpace(t[j]))
         IN <<SubSeq(t, 1, e - 1)>> \o Split(SubSeq(t, e, Len(t)))

(***************************************************************************)
(* The calendar of datetime.date.                                          *)
(***************************************************************************)
IsLeap(y) == y % 4 = 0 /\ (y % 100 # 0 \/ y % 400 = 0)

DaysInMonth(y, m) == IF m = 2 THEN (IF IsLeap(y) THEN 29 ELSE 28)
                     ELSE IF m \in {4, 6, 9, 11} THEN 30 ELSE 31

DaysBeforeYear(y) == (y - 1) * 365 + (y - 1) \div 4 - (y - 1) \div 100
                     + (y - 1) \div 400

RECURSIVE DaysBeforeMonth(_, _)
DaysBeforeMonth(y, m) == IF m = 1 THEN 0
                         ELSE DaysBeforeMonth(y, m - 1) + DaysInMonth(y, m - 1)

ValidDate(y, m, d) == /\ y \in 1..9999
                      /\ m \in 1..12
                      /\ d \in 1..DaysInMonth(y, m)

Ordinal(y, m, d) == DaysBeforeYear(y) + DaysBeforeMonth(y, m) + d

\* dt.date(y, m, d): the date, or ValueError
MkDate(y, m, d) == IF ValidDate(y, m, d) THEN [ord |-> Ordinal(y, m, d)]
                   ELSE Raise("ValueError")

\* date.max.toordinal()
MaxOrdinal == Ordinal(9999, 12, 31)

MkDateTime(y, m, d, hh, mi, ss) ==
    [day |-> Ordinal(y, m, d), sec |-> (hh * 60 + mi) * 60 + ss]

\* a <= b and a < b on datetimes
DtLe(a, b) == a.day < b.day \/ (a.day = b.day /\ a.sec <= b.sec)

DtLt(a, b) == a.day < b.day \/ (a.day = b.day /\ a.sec < b.sec)

(***************************************************************************)
(* parse_timezone_offset and to_utc.                                       *)
(***************************************************************************)
AOE == <<"A", "O", "E">>

\* The groups of UTC([+-])(\d{1,2})(?::(\d{2}))?$ when the hours end before
\* position e of tz
TzGroups(tz, e) ==
    IF e = 5 THEN None
    ELSE IF e = Len(tz) + 1
         THEN [sign |-> tz[4], hours |-> SubSeq(tz, 5, e - 1), minutes |-> <<>>]
    ELSE IF /\ Len(tz) = e + 2
            /\ tz[e] = ":"
            /\ AllDigits(SubSeq(tz, e + 1, e + 2))
         THEN [sign |-> tz[4], hours |-> SubSeq(tz, 5, e - 1),
               minutes |-> SubSeq(tz, e + 1, e + 2)]
    ELSE None

\* The end of \d{1,2} from position 5: greedy, two digits when there are two
HoursEnd(h) == IF h - 5 >= 2 THEN 7 ELSE h

\* re.match(r"UTC([+-])(\d{1,2})(?::(\d{2}))?$", tz): the groups, or None
TzMatch(tz) ==
    IF /\ Len(tz) >= 5
       /\ SubSeq(tz, 1, 3) = <<"U", "T", "C">>
       /\ tz[4] \in {"+", "-"}
    THEN TzGroups(tz, HoursEnd(RunEnd(tz, 5, "d")))
    ELSE None

\* dt.timezone(dt.timedelta(minutes=m)): the offset in minutes, or ValueError
\* when it is not strictly between -24 h and 24 h
MkTimezone(m) == IF -1440 < m /\ m < 1440 THEN [offset |-> m]
                 ELSE Raise("ValueError")

\* The timezone of the match m of the UTC pattern, UTC when there is none
TzOfMatch(m) ==
    IF m # None
    THEN LET sign    == IF m.sign = "+" THEN 1 ELSE -1
             hours   == IntOf(m.hours)
             minutes == IntOf(m.minutes)
             offset_min == sign * (hours * 60 + minutes)
         IN MkTimezone(offset_min)
    ELSE [offset |-> 0]

\* The timezone of tz, the stripped and upper-cased string
TzOfUpper(tz) == IF tz = AOE THEN MkTimezone(-12 * 60)
                 ELSE TzOfMatch(TzMatch(tz))

parse_timezone_offset(tz_str) ==
    IF tz_str = <<>> THEN [offset |-> 0]
    ELSE TzOfUpper(UpperStr(Strip(tz_str)))

\* local_dt.replace(tzinfo=tz).astimezone(dt.timezone.utc): the UTC datetime,
\* or OverflowError outside the years 1..9999
AsUtc(local_dt, tz) ==
    IF IsExc(tz) THEN tz
    ELSE LET total == local_dt.sec - tz.offset * 60
             day   == local_dt.day + (total \div 86400)
         IN IF day < 1 \/ day > MaxOrdinal THEN Raise("OverflowError")
            ELSE [day |-> day, sec |-> total % 86400]

\* The UTC datetime, or the exception of the timezone or of the conversion
to_utc(local_dt, tz_str) == AsUtc(local_dt, parse_timezone_offset(tz_str))

(***************************************************************************)
(* parse_deadline_local.                                                   *)
(***************************************************************************)
TBD == <<"T", "B", "D">>

\* The fields of "YYYY-MM-DD", "YYYY-MM-DD?HH:MM" or "YYYY-MM-DD?HH:MM:SS"
\* (? any one character), or None when s has none of these shapes.
IsoFields(s) ==
    LET n == Len(s)
        dateOk == /\ n >= 10
                  /\ AllDigits(SubSeq(s, 1, 4)) /\ s[5] = "-"
                  /\ AllDigits(SubSeq(s, 6, 7)) /\ s[8] = "-"
                  /\ AllDigits(SubSeq(s, 9, 10))
        timeOk == /\ n \in {16, 19}
                  /\ AllDigits(SubSeq(s, 12, 13)) /\ s[14] = ":"
                  /\ AllDigits(SubSeq(s, 15, 16))
                  /\ (n = 19 => s[17] = ":" /\ AllDigits(SubSeq(s, 18, 19)))
    IN IF dateOk /\ (n = 10 \/ timeOk)
       THEN [y  |-> IntOf(SubSeq(s, 1, 4)),
             m  |-> IntOf(SubSeq(s, 6, 7)),
             d  |-> IntOf(SubSeq(s, 9, 10)),
             hh |-> IF n > 10 THEN IntOf(SubSeq(s, 12, 13)) ELSE 0,
             mi |-> IF n > 10 THEN IntOf(SubSeq(s, 15, 16)) ELSE 0,
             ss |-> IF n = 19 THEN IntOf(SubSeq(s, 18, 19)) ELSE 0]
       ELSE None

\* The datetime of the fields f, or ValueError when there are none or one is
\* out of range
DateTimeOfFields(f) ==
    IF /\ f # None
       /\ ValidDate(f.y, f.m, f.d)
       /\ f.hh < 24 /\ f.mi < 60 /\ f.ss < 60
    THEN MkDateTime(f.y, f.m, f.d, f.hh, f.mi, f.ss)
    ELSE Raise("ValueError")

\* dt.datetime.fromisoformat(s) for the date and date-time shapes above: the
\* naive datetime, or ValueError (any other string, or a field out of range)
fromisoformat(s) == DateTimeOfFields(IsoFields(s))

\* try: return d  except Exception: return None
NoneIfRaised(d) == IF IsExc(d) THEN None ELSE d

\* " ".join(parts[:2]) if len(parts) >= 2 else parts[0], then
\* .replace(" ", "T"), then fromisoformat under the try. parts[0] of an empty
\* list is outside the try: IndexError.
ParseParts(parts) ==
    IF Len(parts) = 0 THEN Raise("IndexError")
    ELSE IF Len(parts) >= 2
         THEN NoneIfRaised(fromisoformat(parts[1] \o <<"T">> \o parts[2]))
    ELSE NoneIfRaised(fromisoformat(parts[1]))

\* The naive local datetime, None, or IndexError for a string of white space
parse_deadline_local(ddl_str) ==
    IF ddl_str = <<>> \/ ddl_str = TBD THEN None
    ELSE ParseParts(Split(ddl_str))

(***************************************************************************)
(* pick_deadline_and_status.                                               *)
(***************************************************************************)
\* The accumulator [best_future_item, best_future_utc, last_item, last_utc]
\* after an item whose deadline is ddl_utc
PickUpdate(acc, item, ddl_utc, now) ==
    IF IsExc(ddl_utc) THEN ddl_utc
    ELSE LET newLast   == acc.last_utc = None \/ DtLt(acc.last_utc, ddl_utc)
             newFuture == /\ DtLe(now, ddl_utc)
                          /\ (acc.best_future_utc = None
                              \/ DtLt(ddl_utc, acc.best_future_utc))
         IN [last_utc  |-> IF newLast THEN ddl_utc ELSE acc.last_utc,
             last_item |-> IF newLast THEN item ELSE acc.last_item,
             best_future_utc  |-> IF newFuture THEN ddl_utc
                                  ELSE acc.best_future_utc,
             best_future_item |-> IF newFuture THEN item
                                  ELSE acc.best_future_item]

\* The accumulator after an item whose deadline parsed to local_dt
PickParsed(acc, item, local_dt, timezone_str, now) ==
    IF IsExc(local_dt) THEN local_dt
    ELSE IF local_dt = None THEN acc
    ELSE PickUpdate(acc, item, to_utc(local_dt, timezone_str), now)

\* One iteration of the loop over the timeline
PickStep(acc, item, timezone_str, now) ==
    PickParsed(acc, item, parse_deadline_local(item.deadline), timezone_str, now)

RECURSIVE PickLoop(_, _, _, _, _)
\* The loop from item i on, acc being the accumulator, or the exception, so far
PickLoop(timeline, i, acc, timezone_str, now) ==
    IF IsExc(acc) \/ i > Len(timeline) THEN acc
    ELSE PickLoop(timeline, i + 1,
                  PickStep(acc, timeline[i], timezone_str, now),
                  timezone_str, now)

Unknown == [ddl_item |-> None, ddl_utc |-> None, days_left |-> None,
            status |-> "unknown"]

\* A faulty result, which counts the days from the deadline to now
PickResult_DaysSinceDeadline(acc, now) ==
    IF IsExc(acc) THEN acc
    ELSE IF acc.best_future_item # None
         THEN [ddl_item  |-> acc.best_future_item,
               ddl_utc   |-> acc.best_future_utc,
               days_left |-> [int |-> now.day - acc.best_future_utc.day],
               status    |-> IF DtLe(now, acc.best_future_utc) THEN "open"
                             ELSE "passed"]
    ELSE IF acc.last_item # None
         THEN [ddl_item  |-> acc.last_item,
               ddl_utc   |-> acc.last_utc,
               days_left |-> [int |-> now.day - acc.last_utc.day],
               status    |-> IF DtLe(now, acc.last_utc) THEN "open"
                             ELSE "passed"]
    ELSE [ddl_item |-> None, ddl_utc |-> None, days_left |-> None,
          status |-> "unknown"]

\* What the function returns after the loop
PickResult(acc, now) ==
    IF IsExc(acc) THEN acc
    ELSE IF acc.best_future_item # None
         THEN [ddl_item  |-> acc.best_future_item,
               ddl_utc   |-> acc.best_future_utc,
               days_left |-> [int |-> acc.best_future_utc.day - now.day],
               status    |-> IF DtLe(now, acc.best_future_utc) THEN "open"
                             ELSE "passed"]
    ELSE IF acc.last_item # None
         THEN [ddl_item  |-> acc.last_item,
               ddl_utc   |-> acc.last_utc,
               days_left |-> [int |-> acc.last_utc.day - now.day],
               status    |-> IF DtLe(now, acc.last_utc) THEN "open"
                             ELSE "passed"]
    ELSE Unknown

pick_deadline_and_status(timeline, timezone_str, now) ==
    IF timeline = <<>> THEN Unknown
    ELSE PickResult(PickLoop(timeline, 1,
                             [best_future_item |-> None, best_future_utc |-> None,
                              last_item |-> None, last_utc |-> None],
                             timezone_str, now),
                    now)

(***************************************************************************)
(* parse_conf_end_date.                                                    *)
(***************************************************************************)
MONTHS == (<<"J","A","N">> :> 1) @@ (<<"F","E","B">> :> 2)
       @@ (<<"M","A","R">> :> 3) @@ (<<"A","P","R">> :> 4)
       @@ (<<"M","A","Y">> :> 5) @@ (<<"J","U","N">> :> 6)
       @@ (<<"J","U","L">> :> 7) @@ (<<"A","U","G">> :> 8)
       @@ (<<"S","E","P">> :> 9) @@ (<<"S","E","P","T">> :> 9)
       @@ (<<"O","C","T">> :> 10) @@ (<<"N","O","V">> :> 11)
       @@ (<<"D","E","C">> :> 12)

IsInt(v) == DOMAIN v = {"int"}

\* The pattern of the conference date is
\*   ([A-Za-z]+)\s+(\d{1,2})(?:\s*[-\u2013]\s*(\d{1,2}))?,\s*(\d{4})
\* It is matched part by part, from left to right. Every run is the longest
\* one: a shorter run of letters, spaces or digits is followed by a character
\* of the same kind, which nothing after it in the pattern accepts.

\* ,\s*(\d{4}) with the comma at position g and the digits from h on: all the
\* groups, or None
MatchYear(s, mon_name, start_day, end_day, g, h) ==
    IF /\ g <= Len(s) /\ s[g] = ","
       /\ h + 3 <= Len(s) /\ AllDigits(SubSeq(s, h, h + 3))
    THEN [mon_name |-> mon_name, start_day |-> start_day,
          end_day |-> end_day, year |-> SubSeq(s, h, h + 3)]
    ELSE None

\* (\d{1,2}) of the optional group from e to f, and the rest
MatchEndDay(s, mon_name, start_day, e, f) ==
    IF f - e \in {1, 2}
    THEN MatchYear(s, mon_name, start_day, SubSeq(s, e, f - 1), f,
                   RunEnd(s, f + 1, "s"))
    ELSE None

\* (?:\s*[-\u2013]\s*(\d{1,2}))? after the start day, which ends before
\* position c, d being the end of the spaces from c on; and the rest. Without
\* the group the comma is at c, with it the dash is at d.
MatchRange(s, mon_name, start_day, c, d) ==
    IF c <= Len(s) /\ s[c] = ","
    THEN MatchYear(s, mon_name, start_day, <<>>, c, RunEnd(s, c + 1, "s"))
    ELSE IF d <= Len(s) /\ IsDash(s[d])
    THEN MatchEndDay(s, mon_name, start_day, RunEnd(s, d + 1, "s"),
                     RunEnd(s, RunEnd(s, d + 1, "s"), "d"))
    ELSE None

\* (\d{1,2}) from b to c, and the rest
MatchStartDay(s, mon_name, b, c) ==
    IF c - b \in {1, 2}
    THEN MatchRange(s, mon_name, SubSeq(s, b, c - 1), c, RunEnd(s, c, "s"))
    ELSE None

\* \s+ from a to b, and the rest
MatchSpaces(s, mon_name, a, b) ==
    IF b > a THEN MatchStartDay(s, mon_name, b, RunEnd(s, b, "d")) ELSE None

\* ([A-Za-z]+) from i to a, and the rest
MatchMonth(s, i, a) ==
    IF a > i THEN MatchSpaces(s, SubSeq(s, i, a - 1), a, RunEnd(s, a, "s"))
    ELSE None

\* The groups of the pattern matched at position i of s, or None
DateMatchAt(s, i) == MatchMonth(s, i, RunEnd(s, i, "a"))

\* The match at the least position of hits, None when hits is empty
LeftmostMatch(s, hits) ==
    IF hits = {} THEN None
    ELSE DateMatchAt(s, CHOOSE i \in hits : \A j \in hits : i <= j)

\* re.search: the match at the leftmost position that has one
DateSearch(s) ==
    LeftmostMatch(s, { i \in 1..Len(s) : DateMatchAt(s, i) # None })

\* dt.date(year, 12, 31) when the year is an int, else None
YearEnd(year) == IF IsInt(year) THEN MkDate(year.int, 12, 31) ELSE None

\* mon_name[:3]
First3(mon_name) ==
    SubSeq(mon_name, 1, IF Len(mon_name) < 3 THEN Len(mon_name) ELSE 3)

\* The date of the month key and the groups m, the fallback for an unknown month
DateOfMonth(key, m, year) ==
    IF key \in DOMAIN MONTHS
    THEN MkDate(IntOf(m.year), MONTHS[key],
                IF m.end_day # <<>> THEN IntOf(m.end_day)
                ELSE IntOf(m.start_day))
    ELSE YearEnd(year)

\* The date of the match m, the fallback when there is none
DateOfMatch(m, year) ==
    IF m = None THEN YearEnd(year)
    ELSE DateOfMonth(First3(UpperStr(m.mon_name)), m, year)

\* The end date, None, or the ValueError of dt.date
parse_conf_end_date(date_str, year) ==
    IF date_str = <<>> THEN YearEnd(year)
    ELSE DateOfMatch(DateSearch(date_str), year)

(***************************************************************************)
(* build_year_candidates.  An entry is                                     *)
(*   [title, description, timezone, date, confs], and an edition (one of   *)
(* its confs) is [year, timezone, date, timeline]; title, description and  *)
(* year are YAML scalars, timezone and date are strings, a timeline item   *)
(* is [deadline |-> string].  The link, place, rank and comment fields are *)
(* copied to the output unread and are left out.                           *)
(***************************************************************************)
\* a or b on two strings
StrOr(a, b) == IF a # <<>> THEN a ELSE b

\* entry.get(key, "").strip(): [str |-> the stripped string], AttributeError
\* unless the value is a string
StripField(v) == IF DOMAIN v = {"str"} THEN [str |-> Strip(v.str)]
                 ELSE Raise("AttributeError")

\* The conference has not ended before today
Upcoming(conf_end_date, today) ==
    /\ conf_end_date # None
    /\ conf_end_date.ord >= today

\* The deadline is to be decided and the conference is still to come
TbdOpen(ddl_item, deadline_str, upcoming) ==
    /\ (ddl_item = None \/ deadline_str = TBD)
    /\ upcoming

\* A faulty status, which calls an edition finished as soon as the deadline
\* is not open
OverallStatus_NoOnTheWay(ddl_status, upcoming) ==
    IF ddl_status = "open" THEN "open" ELSE "finished"

\* overall_status from the status of the deadline
OverallStatus(ddl_status, upcoming) ==
    IF ddl_status = "open" THEN "open"
    ELSE IF upcoming THEN "on_the_way"
    ELSE "finished"

\* The candidate of an edition of year `year` from what pick_deadline_and_status
\* (picked) and parse_conf_end_date (conf_end_date) gave for it, or the
\* exception one of them raised
Classify(title, description, year, timezone_str, date_str, picked, conf_end_date, now) ==
    IF IsExc(picked) THEN picked
    ELSE IF IsExc(conf_end_date) THEN conf_end_date
    ELSE LET ddl_item     == picked.ddl_item
             deadline_str == IF ddl_item # None THEN ddl_item.deadline ELSE TBD
             upcoming     == Upcoming(conf_end_date, now.day)
             tbdOpen      == TbdOpen(ddl_item, deadline_str, upcoming)
             ddl_status   == IF tbdOpen THEN "open" ELSE picked.status
             days_left    == IF tbdOpen THEN None ELSE picked.days_left
         IN [title           |-> title,
             description     |-> description,
             year            |-> year,
             timezone        |-> timezone_str,
             date_str        |-> date_str,
             deadline_str    |-> deadline_str,
             deadline_utc    |-> picked.ddl_utc,
             days_left       |-> days_left,
             deadline_status |-> ddl_status,
             overall_status  |-> OverallStatus(ddl_status, upcoming)]

\* The candidate of edition c once its timezone and date strings are known
CandidateOf(title, description, c, timezone_str, date_str, now) ==
    Classify(title, description, c.year.int, timezone_str, date_str,
             pick_deadline_and_status(c.timeline, timezone_str, now),
             parse_conf_end_date(date_str, c.year),
             now)

\* The body of the loop for one edition c with an int year: the candidate,
\* or the exception raised on the way
Candidate(title, description, entry, c, now) ==
    CandidateOf(title, description, c, StrOr(c.timezone, entry.timezone),
                StrOr(c.date, entry.date), now)

\* A faulty append, which leaves out an edition whose conference date string
\* has no date in it
AppendCandidate_SkipsUnparsableDate(candidates, cand) ==
    IF IsExc(candidates) THEN candidates
    ELSE IF IsExc(cand) THEN cand
    ELSE IF cand.date_str # <<>> /\ DateSearch(cand.date_str) = None
         THEN candidates
    ELSE [list |-> Append(candidates.list, cand)]

\* candidates.append(cand), an exception going through
AppendCandidate(candidates, cand) ==
    IF IsExc(candidates) THEN candidates
    ELSE IF IsExc(cand) THEN cand
    ELSE [list |-> Append(candidates.list, cand)]

RECURSIVE BuildLoop(_, _, _, _, _, _)
\* The loop from edition i on; candidates is [list |-> those built so far],
\* or the exception raised
BuildLoop(title, description, entry, i, candidates, now) ==
    IF IsExc(candidates) \/ i > Len(entry.confs) THEN candidates
    ELSE IF ~IsInt(entry.confs[i].year)
         THEN BuildLoop(title, description, entry, i + 1, candidates, now)
    ELSE BuildLoop(title, description, entry, i + 1,
                   AppendCandidate(candidates,
                       Candidate(title, description, entry, entry.confs[i], now)),
                   now)

\* The loop once title and description are stripped
BuildStripped(title, description, entry, now) ==
    IF IsExc(title) THEN title
    ELSE IF IsExc(description) THEN description
    ELSE BuildLoop(title.str, description.str, entry, 1, [list |-> <<>>], now)

\* [list |-> the candidates], or [exc |-> e] when the function raises e
build_year_candidates(entry, now) ==
    BuildStripped(StripField(entry.title), StripField(entry.description),
                  entry, now)

(***************************************************************************)
(* choose_latest_candidate.                                                *)
(***************************************************************************)
\* dt.datetime.max: later than every datetime of whole seconds
DtMax == [day |-> MaxOrdinal, sec |-> 86400]

\* A faulty key, which ranks a candidate without a deadline first
DeadlineKey_NoneFirst(c) ==
    IF c.deadline_utc = None THEN [day |-> 0, sec |-> 0] ELSE c.deadline_utc

DeadlineKey(c) == IF c.deadline_utc = None THEN DtMax ELSE c.deadline_utc

\* min(latest, key=key): the first element whose key is the least
MinByDeadline(latest) ==
    LET i == CHOOSE k \in DOMAIN latest :
                 /\ \A j \in DOMAIN latest :
                        DtLe(DeadlineKey(latest[k]), DeadlineKey(latest[j]))
                 /\ \A j \in 1..(k - 1) :
                        DtLt(DeadlineKey(latest[k]), DeadlineKey(latest[j]))
    IN latest[i]

choose_latest_candidate(candidates) ==
    IF candidates = <<>> THEN None
    ELSE LET max_year == CHOOSE y \in { candidates[i].year : i \in DOMAIN candidates } :
                             \A i \in DOMAIN candidates : candidates[i].year <= y
             latest   == SelectSeq(candidates, LAMBDA c : c.year = max_year)
         IN IF Len(latest) = 1 THEN latest[1] ELSE MinByDeadline(latest)

(***************************************************************************)
(* format_days_left, status_style_and_label and the default order of       *)
(* generate_html.                                                          *)
(***************************************************************************)
\* f"{n} days left" is <<n, " days left">>
format_days_left(days_left) ==
    IF days_left = None THEN <<"TBD">>
    ELSE IF days_left.int > 0 THEN <<days_left.int, " days left">>
    ELSE IF days_left.int = 0 THEN <<"Due today">>
    ELSE <<-days_left.int, " days ago">>

status_style_and_label(overall_status) ==
    IF overall_status = "open"
    THEN [style |-> "background-color:#e9f7ef;", label |-> "Open"]
    ELSE IF overall_status = "on_the_way"
    THEN [style |-> "background-color:#e7f1fb;", label |-> "On the way"]
    ELSE [style |-> "background-color:#f2f2f2;color:#777;", label |-> "Finished"]

\* ord(c) of the characters of a label
CodePoint(c) == IF IsDigit(c) THEN 48 + DigitVal(c)
                ELSE IF IsUpper(c) THEN 64 + IndexIn(c, UpperCase)
                ELSE IF IsLower(c) THEN 96 + IndexIn(c, LowerCase)
                ELSE 32

\* a < b on Python strings
RECURSIVE StrLt(_, _)
StrLt(a, b) == IF b = <<>> THEN FALSE
               ELSE IF a = <<>> THEN TRUE
               ELSE IF a[1] = b[1] THEN StrLt(Tail(a), Tail(b))
               ELSE CodePoint(a[1]) < CodePoint(b[1])

StatusRank(overall_status) ==
    IF overall_status = "open" THEN 0
    ELSE IF overall_status = "on_the_way" THEN 1
    ELSE IF overall_status = "finished" THEN 2
    ELSE 3

default_sort_key(r) == <<StatusRank(r.overall_status), r.label, r.year>>

\* k1 < k2 on the key tuples (status_rank, label, year)
KeyLt(k1, k2) == \/ k1[1] < k2[1]
                 \/ k1[1] = k2[1] /\ StrLt(k1[2], k2[2])
                 \/ k1[1] = k2[1] /\ k1[2] = k2[2] /\ k1[3] < k2[3]

\* sorted(rows, key=default_sort_key): a stable sort
RECURSIVE Insert(_, _)
Insert(sorted, r) ==
    IF sorted = <<>> THEN <<r>>
    ELSE IF KeyLt(default_sort_key(r), default_sort_key(sorted[Len(sorted)]))
         THEN Append(Insert(SubSeq(sorted, 1, Len(sorted) - 1), r),
                     sorted[Len(sorted)])
         ELSE Append(sorted, r)

RECURSIVE Sorted(_)
Sorted(rs) == IF rs = <<>> THEN <<>>
              ELSE Insert(Sorted(SubSeq(rs, 1, Len(rs) - 1)), rs[Len(rs)])

\* A faulty table, which keeps the rows in the order main appended them
generate_html_AsAppended(rs) == rs

\* The rows of the table body, in the order generate_html writes them
generate_html(rs) == Sorted(rs)

(***************************************************************************)
(* TARGET_CONFS, fetch_conf_yaml and main.                                 *)
(***************************************************************************)
ALL_TARGET_CONFS ==
  <<[name |-> "aaai", label |-> <<"A","A","A","I">>],
     [name |-> "nips", label |-> <<"N","e","u","I","P","S">>],
     [name |-> "cvpr", label |-> <<"C","V","P","R">>],
     [name |-> "emnlp", label |-> <<"E","M","N","L","P">>],
     [name |-> "iccv", label |-> <<"I","C","C","V">>],
     [name |-> "eccv", label |-> <<"E","C","C","V">>],
     [name |-> "ijcai", label |-> <<"I","J","C","A","I">>],
     [name |-> "www", label |-> <<"W","W","W">>],
     [name |-> "bmvc", label |-> <<"B","M","V","C">>],
     [name |-> "miccai", label |-> <<"M","I","C","C","A","I">>],
     [name |-> "bibm", label |-> <<"B","I","B","M">>],
     [name |-> "isbi", label |-> <<"I","S","B","I">>],
     [name |-> "icaps", label |-> <<"I","C","A","P","S">>],
     [name |-> "icassp", label |-> <<"I","C","A","S","S","P">>]>>

\* The model runs main on the first MaxConfs target conferences.
MaxConfs == 3

TARGET_CONFS == SubSeq(ALL_TARGET_CONFS, 1, MaxConfs)

\* What the server answers for one conference: [status |-> "neterr"] (the
\* request fails), [status |-> "http"] (an error status), [status |-> "yaml"]
\* (the body does not load), or [status |-> "ok", body |-> b] with b the
\* loaded document: [list |-> entries], [dict |-> entry] or None.
fetch_conf_yaml(answer) ==
    IF answer.status = "neterr" THEN Raise("ConnectionError")
    ELSE IF answer.status = "http" THEN Raise("HTTPError")
    ELSE IF answer.status = "yaml" THEN Raise("YAMLError")
    ELSE LET b == answer.body IN
         IF DOMAIN b = {"dict"} THEN [list |-> <<b.dict>>]
         ELSE IF b = None THEN [list |-> <<>>]
         ELSE b

\* all_candidates.extend(cs), an exception going through
ExtendCandidates(acc, cs) ==
    IF IsExc(acc) THEN acc
    ELSE IF IsExc(cs) THEN cs
    ELSE [list |-> acc.list \o cs.list]

RECURSIVE AllCandidates(_, _, _, _)
\* all_candidates of one conference: [list |-> the candidates of its entries,
\* in order], or the exception build_year_candidates raises
AllCandidates(entries, i, acc, now) ==
    IF IsExc(acc) \/ i > Len(entries) THEN acc
    ELSE AllCandidates(entries, i + 1,
                       ExtendCandidates(acc, build_year_candidates(entries[i], now)),
                       now)

\* The row main appends for candidate best of conference conf_def
MakeRow(conf_def, best) ==
    [label          |-> conf_def.label,
     title          |-> best.title,
     description    |-> best.description,
     year           |-> best.year,
     deadline_str   |-> best.deadline_str,
     timezone       |-> best.timezone,
     deadline_utc   |-> best.deadline_utc,
     days_left      |-> best.days_left,
     days_left_str  |-> format_days_left(best.days_left),
     date_str       |-> best.date_str,
     overall_status |-> best.overall_status,
     row_style      |-> status_style_and_label(best.overall_status).style,
     status_label   |-> status_style_and_label(best.overall_status).label]

\* What the loop body does with best, the chosen candidate: its row, or no
\* row when there is none ("No valid confs")
RowOfBest(conf_def, best) ==
    IF best = None THEN [row |-> None] ELSE [row |-> MakeRow(conf_def, best)]

\* The loop body after the fetch, on all_candidates or the exception raised
RowOfCandidates(conf_def, all) ==
    IF IsExc(all) THEN all
    ELSE RowOfBest(conf_def, choose_latest_candidate(all.list))

\* The loop body of main after a successful fetch of conf_def:
\* [row |-> the row appended], [row |-> None], or [exc |-> the exception]
LoopBody(conf_def, entries, now) ==
    RowOfCandidates(conf_def, AllCandidates(entries, 1, [list |-> <<>>], now))

(***************************************************************************)
(* The inputs of the model: deadline, date and timezone strings as they    *)
(* occur in the fetched records, and the clock.                            *)
(***************************************************************************)
\* "2025-08-01 23:59:59", "2025-02-01 23:59:59", "2024-02-01 23:59:59",
\* "soon", " ", "Mar 12-16, 2026", "Jul 1-5, 2025", "Jul 1-5, 2024",
\* "Summer 2025", "Feb 30, 2026", "AoE", "UTC+8", "UTC+24"
DdlFuture == <<"2","0","2","5","-","0","8","-","0","1"," ","2","3",":","5","9",":","5","9">>

DdlPast == <<"2","0","2","5","-","0","2","-","0","1"," ","2","3",":","5","9",":","5","9">>

DdlOld == <<"2","0","2","4","-","0","2","-","0","1"," ","2","3",":","5","9",":","5","9">>

DdlJunk == <<"s","o","o","n">>

DdlBlank == <<" ">>

DateFuture == <<"M","a","r"," ","1","2","-","1","6",","," ","2","0","2","6">>

DateSoon == <<"J","u","l"," ","1","-","5",","," ","2","0","2","5">>

DateOld == <<"J","u","l"," ","1","-","5",","," ","2","0","2","4">>

DateUnparsable == <<"S","u","m","m","e","r"," ","2","0","2","5">>

DateNoSuchDay == <<"F","e","b"," ","3","0",","," ","2","0","2","6">>

TzAoE == <<"A","o","E">>

TzPlus8 == <<"U","T","C","+","8">>

TzPlus24 == <<"U","T","C","+","2","4">>

\* dt.datetime.utcnow() at the start of main
Now0 == MkDateTime(2025, 6, 15, 12, 0, 0)

Item(d) == [deadline |-> d]

Edition(year, date, tz, timeline) ==
    [year |-> year, date |-> date, timezone |-> tz, timeline |-> timeline]

Entry(title, confs) ==
    [title |-> title, description |-> [str |-> <<>>], timezone |-> <<>>,
     date |-> <<>>, confs |-> confs]

Title == [str |-> <<" ", "C", "o", "n", "f", " ">>]

\* editions: open, on the way, finished, deadline to be decided, no int year,
\* unparsable deadline and date
EdOpen == Edition([int |-> 2026], DateFuture, TzAoE, <<Item(DdlFuture)>>)

EdOnTheWay == Edition([int |-> 2025], DateSoon, TzPlus8, <<Item(DdlPast)>>)

EdFinished == Edition([int |-> 2024], DateOld, <<>>, <<Item(DdlOld)>>)

EdTBD == Edition([int |-> 2026], <<>>, <<>>, <<Item(TBD)>>)

EdNoYear == Edition(None, DateFuture, TzAoE, <<Item(DdlFuture)>>)

EdUnparsable ==
    Edition([int |-> 2025], DateUnparsable, TzAoE, <<Item(DdlJunk), Item(DdlPast)>>)

\* editions on which the script raises
EdNoSuchDay == Edition([int |-> 2026], DateNoSuchDay, TzAoE, <<Item(DdlFuture)>>)

EdBlankDeadline == Edition([int |-> 2026], DateFuture, TzAoE, <<Item(DdlBlank)>>)

Ok(body) == [status |-> "ok", body |-> body]

FailedAnswers == { [status |-> "neterr"], [status |-> "http"], [status |-> "yaml"] }

GoodAnswers ==
    { Ok([list |-> <<Entry(Title, <<EdFinished, EdOnTheWay, EdOpen>>)>>]),
      Ok([dict |-> Entry(Title, <<EdOnTheWay, EdFinished>>)]),
      Ok([list |-> <<Entry(Title, <<EdFinished>>)>>]),
      Ok([list |-> <<Entry(Title, <<EdNoYear, EdTBD>>)>>]),
      Ok([list |-> <<Entry(Title, <<EdUnparsable>>)>>]),
      Ok(None) }

RaisingAnswers ==
    { Ok([list |-> <<Entry(Title, <<EdOpen, EdNoSuchDay>>)>>]),
      Ok([list |-> <<Entry(None, <<EdOpen>>)>>]) }

Answers == FailedAnswers \cup GoodAnswers \cup RaisingAnswers

Confs == 1..Len(TARGET_CONFS)

(***************************************************************************)
(* main.  pc is the position in main: "fetch" at the head of the loop over *)
(* TARGET_CONFS (idx the next conference), "build" after a successful      *)
(* fetch, "done" after the file is written, "crashed" when an exception    *)
(* left main.  remote is what the server holds for each conference.        *)
(***************************************************************************)
NotCalled == inp = None /\ res = None

Init == /\ pc = "fetch"
        /\ idx = 1
        /\ now_utc = Now0
        /\ remote \in [Confs -> Answers]
        /\ data = <<>>
        /\ rows = <<>>
        /\ fetches = [c \in Confs |-> 0]
        /\ out = [written |-> 0, table |-> <<>>]
        /\ exc = ""
        /\ NotCalled

\* fetch_conf_yaml returns: the loop body goes on with data
FetchOk ==
    /\ pc = "fetch" /\ idx <= Len(TARGET_CONFS)
    /\ ~IsExc(fetch_conf_yaml(remote[idx]))
    /\ fetches' = [fetches EXCEPT ![idx] = @ + 1]
    /\ data' = fetch_conf_yaml(remote[idx]).list
    /\ pc' = "build"
    /\ UNCHANGED <<idx, now_utc, remote, rows, out, exc, inp, res>>

\* fetch_conf_yaml raises: the except clause logs and continues
FetchFail ==
    /\ pc = "fetch" /\ idx <= Len(TARGET_CONFS)
    /\ IsExc(fetch_conf_yaml(remote[idx]))
    /\ fetches' = [fetches EXCEPT ![idx] = @ + 1]
    /\ idx' = idx + 1
    /\ UNCHANGED <<pc, now_utc, remote, data, rows, out, exc, inp, res>>

\* the rest of the loop body when a candidate is chosen: its row is appended
BuildRow ==
    /\ pc = "build"
    /\ \E r \in {LoopBody(TARGET_CONFS[idx], data, now_utc)} :
          /\ ~IsExc(r)
          /\ r.row # None
          /\ rows' = Append(rows, r.row)
    /\ idx' = idx + 1
    /\ pc' = "fetch"
    /\ data' = <<>>
    /\ UNCHANGED <<now_utc, remote, fetches, out, exc, inp, res>>

\* no candidate: "No valid confs" is logged and the loop continues
NoValidConfs ==
    /\ pc = "build"
    /\ \E r \in {LoopBody(TARGET_CONFS[idx], data, now_utc)} :
          /\ ~IsExc(r)
          /\ r.row = None
    /\ idx' = idx + 1
    /\ pc' = "fetch"
    /\ data' = <<>>
    /\ UNCHANGED <<now_utc, remote, rows, fetches, out, exc, inp, res>>

\* build_year_candidates raises: nothing in main catches it
Uncaught ==
    /\ pc = "build"
    /\ \E r \in {LoopBody(TARGET_CONFS[idx], data, now_utc)} :
          /\ IsExc(r)
          /\ exc' = r.exc
    /\ pc' = "crashed"
    /\ UNCHANGED <<idx, now_utc, remote, data, rows, fetches, out, inp, res>>

\* after the loop: generate_html and OUT_FILE.write_text
WriteOutput ==
    /\ pc = "fetch" /\ idx > Len(TARGET_CONFS)
    /\ out' = [written |-> out.written + 1, table |-> generate_html(rows)]
    /\ pc' = "done"
    /\ UNCHANGED <<idx, now_utc, remote, data, rows, fetches, exc, inp, res>>

Next == \/ FetchOk
        \/ FetchFail
        \/ BuildRow
        \/ NoValidConfs
        \/ Uncaught
        \/ WriteOutput

Spec == Init /\ [][Next]_vars

(***************************************************************************)
(* The functions on their own.  Each specification below draws the         *)
(* arguments of one function (inp), calls it, and keeps what it returned   *)
(* or raised (res); main does not run (Idle).                              *)
(***************************************************************************)
Idle == /\ idx = 0
        /\ now_utc = None
        /\ remote = <<>>
        /\ data = <<>>
        /\ rows = <<>>
        /\ fetches = <<>>
        /\ out = None
        /\ exc = ""

mainVars == <<idx, now_utc, remote, data, rows, fetches, out, exc>>

\* The call returns value v, or raises when v is an exception
Return(v) == /\ pc = "call"
             /\ ~IsExc(v)
             /\ res' = v
             /\ pc' = "returned"
             /\ UNCHANGED <<inp, mainVars>>

Raised(v) == /\ pc = "call"
             /\ IsExc(v)
             /\ res' = v
             /\ pc' = "raised"
             /\ UNCHANGED <<inp, mainVars>>

\* to_utc.  The timezone strings, each with the offset (in minutes) that the
\* description of the normalisation gives it:
\*   "", "AoE", " aoe ", "AOE", "UTC+8", "UTC-5:30", "utc+5:45", "UTC-0:30", "UTC+14", "UTC-12", "UTC+08", " UTC+1 ", "PST", "UTC", "UTC+8:5", "UTC+123", "UTC+24"
TzCases ==
    { [tz_str |-> <<>>, offset |-> 0],
      [tz_str |-> <<"A","o","E">>, offset |-> -720],
      [tz_str |-> <<" ","a","o","e"," ">>, offset |-> -720],
      [tz_str |-> <<"A","O","E">>, offset |-> -720],
      [tz_str |-> <<"U","T","C","+","8">>, offset |-> 480],
      [tz_str |-> <<"U","T","C","-","5",":","3","0">>, offset |-> -330],
      [tz_str |-> <<"u","t","c","+","5",":","4","5">>, offset |-> 345],
      [tz_str |-> <<"U","T","C","-","0",":","3","0">>, offset |-> -30],
      [tz_str |-> <<"U","T","C","+","1","4">>, offset |-> 840],
      [tz_str |-> <<"U","T","C","-","1","2">>, offset |-> -720],
      [tz_str |-> <<"U","T","C","+","0","8">>, offset |-> 480],
      [tz_str |-> <<" ","U","T","C","+","1"," ">>, offset |-> 60],
      [tz_str |-> <<"P","S","T">>, offset |-> 0],
      [tz_str |-> <<"U","T","C">>, offset |-> 0],
      [tz_str |-> <<"U","T","C","+","8",":","5">>, offset |-> 0],
      [tz_str |-> <<"U","T","C","+","1","2","3">>, offset |-> 0],
      [tz_str |-> <<"U","T","C","+","2","4">>, offset |-> 1440] }

LocalTimes == { MkDateTime(2025, 3, 1, 23, 59, 59),
                MkDateTime(2025, 6, 15, 12, 0, 0),
                MkDateTime(2024, 12, 31, 20, 0, 0),
                MkDateTime(2024, 2, 29, 3, 30, 0) }

InitTz == /\ pc = "call"
          /\ inp \in [local_dt : LocalTimes, tz : TzCases]
          /\ res = None
          /\ Idle

ToUtcReturns == Return(to_utc(inp.local_dt, inp.tz.tz_str))

ToUtcRaises == Raised(to_utc(inp.local_dt, inp.tz.tz_str))

NextTz == ToUtcReturns \/ ToUtcRaises

SpecTz == InitTz /\ [][NextTz]_vars

\* parse_conf_end_date.  The date strings, each with the last day, month and
\* year it states (None when it states none):
\*   "",
\*   "TBD",
\*   "Summer 2025",
\*   "Foo 3, 2025",
\*   "Mar 12-16, 2026",
\*   "Jul 1-5, 2025",
\*   "Sept 3, 2025",
\*   "June 9 \u2013 13, 2025",
\*   "December 10-15, 2024",
\*   "Nov 30-Dec 2, 2025",
\*   "Feb 29, 2024",
\*   "Feb 30, 2026",
\*   "Feb 29, 2025",
\*   "Apr 31, 2025"
DateCases ==
    { [date_str |-> <<>>, stated |-> None],
      [date_str |-> <<"T","B","D">>, stated |-> None],
      [date_str |-> <<"S","u","m","m","e","r"," ","2","0","2","5">>, stated |-> None],
      [date_str |-> <<"F","o","o"," ","3",","," ","2","0","2","5">>, stated |-> None],
      [date_str |-> <<"M","a","r"," ","1","2","-","1","6",","," ","2","0","2","6">>, stated |-> [y |-> 2026, m |-> 3, d |-> 16]],
      [date_str |-> <<"J","u","l"," ","1","-","5",","," ","2","0","2","5">>, stated |-> [y |-> 2025, m |-> 7, d |-> 5]],
      [date_str |-> <<"S","e","p","t"," ","3",","," ","2","0","2","5">>, stated |-> [y |-> 2025, m |-> 9, d |-> 3]],
      [date_str |-> <<"J","u","n","e"," ","9"," ","ndash"," ","1","3",","," ","2","0","2","5">>, stated |-> [y |-> 2025, m |-> 6, d |-> 13]],
      [date_str |-> <<"D","e","c","e","m","b","e","r"," ","1","0","-","1","5",","," ","2","0","2","4">>, stated |-> [y |-> 2024, m |-> 12, d |-> 15]],
      [date_str |-> <<"N","o","v"," ","3","0","-","D","e","c"," ","2",","," ","2","0","2","5">>, stated |-> [y |-> 2025, m |-> 12, d |-> 2]],
      [date_str |-> <<"F","e","b"," ","2","9",","," ","2","0","2","4">>, stated |-> [y |-> 2024, m |-> 2, d |-> 29]],
      [date_str |-> <<"F","e","b"," ","3","0",","," ","2","0","2","6">>, stated |-> [y |-> 2026, m |-> 2, d |-> 30]],
      [date_str |-> <<"F","e","b"," ","2","9",","," ","2","0","2","5">>, stated |-> [y |-> 2025, m |-> 2, d |-> 29]],
      [date_str |-> <<"A","p","r"," ","3","1",","," ","2","0","2","5">>, stated |-> [y |-> 2025, m |-> 4, d |-> 31]] }

Years == { [int |-> 2024], [int |-> 2025], [int |-> 2026], None }

InitEnd == /\ pc = "call"
           /\ inp \in [date : DateCases, year : Years]
           /\ res = None
           /\ Idle

ParseEndReturns == Return(parse_conf_end_date(inp.date.date_str, inp.year))

ParseEndRaises == Raised(parse_conf_end_date(inp.date.date_str, inp.year))

NextEnd == ParseEndReturns \/ ParseEndRaises

SpecEnd == InitEnd /\ [][NextEnd]_vars

\* choose_latest_candidate.  The candidates are those build_year_candidates
\* gives for editions of 2025 and 2026 with a deadline to come, a deadline
\* gone by or no deadline, and a conference to come or gone by.
DdlLater == <<"2","0","2","5","-","0","9","-","0","1"," ","2","3",":","5","9",":","5","9">>

ChooseEditions ==
    { Edition([int |-> y], d, TzAoE, tl) :
        y \in {2025, 2026},
        d \in {DateFuture, DateOld},
        tl \in {<<Item(DdlFuture)>>, <<Item(DdlLater)>>, <<Item(DdlPast)>>, <<>>} }

ChooseCandidates ==
    { build_year_candidates(Entry(Title, <<e>>), Now0).list[1] : e \in ChooseEditions }

MaxCands == 3

InitChoose == /\ pc = "call"
              /\ inp \in UNION { [1..n -> ChooseCandidates] : n \in 0..MaxCands }
              /\ res = None
              /\ Idle

ChooseReturns == Return(choose_latest_candidate(inp))

NextChoose == ChooseReturns

SpecChoose == InitChoose /\ [][NextChoose]_vars

\* pick_deadline_and_status.  The deadlines are to come, gone by, at the very
\* second of now (UTC), to be decided, not a date, or blank.
DdlNow == <<"2","0","2","5","-","0","6","-","1","5"," ","1","2",":","0","0",":","0","0">>

PickDeadlines == { DdlFuture, DdlLater, DdlPast, DdlNow, TBD, DdlJunk, DdlBlank }

PickTimezones ==
    { t \in TzCases : t.tz_str \in { <<>>, TzAoE, TzPlus8, TzPlus24 } }

MaxTimeline == 2

Timelines == UNION { [1..n -> { Item(d) : d \in PickDeadlines }] : n \in 0..MaxTimeline }

InitPick == /\ pc = "call"
            /\ inp \in [timeline : Timelines, tz : PickTimezones, now : {Now0}]
            /\ res = None
            /\ Idle

PickReturns == Return(pick_deadline_and_status(inp.timeline, inp.tz.tz_str, inp.now))

PickRaises == Raised(pick_deadline_and_status(inp.timeline, inp.tz.tz_str, inp.now))

NextPick == PickReturns \/ PickRaises

SpecPick == InitPick /\ [][NextPick]_vars

\* build_year_candidates.  An entry has one edition, or two; the first is any
\* combination of a year, a conference date (to come, ending today, ended
\* yesterday, none, unparsable, no such day), a timezone and a timeline.
DateToday == <<"J","u","n"," ","1","1","-","1","5",","," ","2","0","2","5">>

DateYesterday == <<"J","u","n"," ","1","0","-","1","4",","," ","2","0","2","5">>

\* "2025-06-15 08:00:00": today, before now in UTC and after it anywhere on earth
DdlEarlierToday == <<"2","0","2","5","-","0","6","-","1","5"," ","0","8",":","0","0",":","0","0">>

BuildEditions ==
    { Edition(y, d, tz, tl) :
        y  \in { [int |-> 2024], [int |-> 2026], None },
        d  \in { DateFuture, DateToday, DateYesterday, <<>>, DateUnparsable,
                 DateNoSuchDay },
        tz \in { TzAoE, <<>>, TzPlus24 },
        tl \in { <<>>, <<Item(TBD)>>, <<Item(DdlFuture)>>, <<Item(DdlPast)>>,
                 <<Item(DdlJunk)>>, <<Item(DdlBlank)>>,
                 <<Item(DdlPast), Item(DdlFuture)>>, <<Item(DdlNow)>>,
                 <<Item(DdlEarlierToday)>> } }

SecondEditions == { EdOnTheWay, EdNoYear, EdTBD }

BuildEntries ==
    { Entry(Title, <<e>>) : e \in BuildEditions }
    \cup { Entry(Title, <<e, f>>) : e \in BuildEditions, f \in SecondEditions }
    \cup { Entry(None, <<e>>) : e \in SecondEditions }

InitBuild == /\ pc = "call"
             /\ inp \in [entry : BuildEntries, now : {Now0}]
             /\ res = None
             /\ Idle

BuildReturns == Return(build_year_candidates(inp.entry, inp.now))

BuildRaises == Raised(build_year_candidates(inp.entry, inp.now))

NextBuild == BuildReturns \/ BuildRaises

SpecBuild == InitBuild /\ [][NextBuild]_vars

(***************************************************************************)
(* The claims about the script.                                            *)
(***************************************************************************)
\* The instant local_dt - offset, for an offset in minutes
ClaimedUtc(local_dt, offset) ==
    LET secs == local_dt.sec - offset * 60
    IN  [day |-> local_dt.day + (secs \div 86400), sec |-> secs % 86400]

\* The deadline of the item parses to a local time
Parses(item) ==
    /\ ~IsExc(parse_deadline_local(item.deadline))
    /\ parse_deadline_local(item.deadline) # None

(***************************************************************************)
(* C1: the edition shown for a conference                                  *)
(***************************************************************************)
\* Candidate a's deadline is no later than b's, no deadline being later than
\* any deadline
NoLaterDeadline(a, b) ==
    \/ b.deadline_utc = None
    \/ /\ a.deadline_utc # None
       /\ \/ a.deadline_utc.day < b.deadline_utc.day
          \/ /\ a.deadline_utc.day = b.deadline_utc.day
             /\ a.deadline_utc.sec <= b.deadline_utc.sec

\* C1: choose_latest_candidate returns a candidate of the greatest year and,
\* among the candidates of that year, one with the earliest UTC deadline, a
\* candidate without a deadline ranking after every candidate with one; it
\* returns None exactly when the list is empty.
C1_LatestYearEarliestDeadline ==
    pc = "returned" =>
        /\ (res = None) <=> (inp = <<>>)
        /\ inp # <<>> =>
              /\ \E k \in DOMAIN inp : res = inp[k]
              /\ \A j \in DOMAIN inp :
                    /\ inp[j].year <= res.year
                    /\ inp[j].year = res.year => NoLaterDeadline(res, inp[j])

\* An older edition with the earliest deadline, then in the latest year an
\* edition without a deadline ahead of one with a deadline: the last one is
\* chosen
C1_Witness ==
    /\ pc = "returned"
    /\ Len(inp) = 3
    /\ res = inp[3]
    /\ inp[1].year < inp[3].year
    /\ inp[2].year = inp[3].year
    /\ inp[1].deadline_utc # None /\ inp[3].deadline_utc # None
    /\ DtLt(inp[1].deadline_utc, inp[3].deadline_utc)
    /\ inp[2].deadline_utc = None

(***************************************************************************)
(* C2, C3, C4, C7: main                                                    *)
(***************************************************************************)
\* The rows of rs for conference c of TARGET_CONFS
RowsFor(rs, c) == SelectSeq(rs, LAMBDA r : r.label = TARGET_CONFS[c].label)

\* The fetch of conference c was attempted and failed
FetchFailed(c) == fetches[c] >= 1 /\ IsExc(fetch_conf_yaml(remote[c]))

\* The rows conference c gets from what the server holds for it alone: the
\* row of its chosen edition, or none
OwnRows(c) ==
    LET body == LoopBody(TARGET_CONFS[c], fetch_conf_yaml(remote[c]).list, now_utc)
    IN  IF IsExc(fetch_conf_yaml(remote[c])) THEN <<>>
        ELSE IF IsExc(body) THEN <<>>
        ELSE IF body.row = None THEN <<>>
        ELSE <<body.row>>

\* main has ended, normally or not
Ended == pc \in {"done", "crashed"}

\* What C2 asks at the end of main
FailedFetchLeavesOthersAlone ==
    \A c \in Confs :
        FetchFailed(c) =>
            /\ fetches[c] = 1
            /\ RowsFor(rows, c) = <<>>
            /\ \A d \in Confs \ {c} :
                  /\ fetches[d] = 1
                  /\ RowsFor(rows, d) = OwnRows(d)

\* C2: when the fetch of one target conference fails, one attempt has been
\* made for it, it has no row, and every other conference of TARGET_CONFS is
\* still fetched once and gets the row of its own record.
C2_FailedFetchIsolated ==
    Ended => FailedFetchLeavesOthersAlone

\* The fetch of the first conference fails, the record of the second one
\* makes main raise, and the third one is never fetched
C2_ThirdNeverFetched ==
    /\ pc = "crashed"
    /\ idx = 2
    /\ FetchFailed(1)
    /\ fetches[3] = 0

\* When main ends normally, C2 holds
C2_HoldsWhenMainEndsNormally ==
    pc = "done" => FailedFetchLeavesOthersAlone

\* All along, the conferences before idx have been fetched once each, in
\* list order, the others not yet, and each has the row of its own record
C2_HoldsOfTheConferencesDone ==
    /\ \A c \in Confs :
          fetches[c] = IF c < idx \/ (c = idx /\ pc \in {"build", "crashed"})
                       THEN 1 ELSE 0
    /\ \A c \in Confs :
          RowsFor(rows, c) = IF c < idx THEN OwnRows(c) ELSE <<>>
    /\ pc = "crashed" => ~IsExc(fetch_conf_yaml(remote[idx]))

\* A deadline string that is there and is no date-time
UnparsableDeadline(d) ==
    /\ d \notin {<<>>, TBD}
    /\ parse_deadline_local(d) = None

\* A conference date string that is there and has no date in it
UnparsableDate(s) ==
    /\ s # <<>>
    /\ parse_conf_end_date(s, None) = None

\* An edition with an unparsable deadline in its timeline or an unparsable
\* conference date
EditionUnparsable(entry, c) ==
    \/ \E i \in DOMAIN c.timeline : UnparsableDeadline(c.timeline[i].deadline)
    \/ UnparsableDate(StrOr(c.date, entry.date))

\* The record fetched for a conference has an edition with an integer year
\* and an unparsable date
HasUnparsableDate(answer) ==
    /\ ~IsExc(fetch_conf_yaml(answer))
    /\ \E e \in Range(fetch_conf_yaml(answer).list) :
          \E c \in Range(e.confs) : IsInt(c.year) /\ EditionUnparsable(e, c)

C4_NoFatalExit ==
    /\ pc # "crashed"
    /\ out.written <= 1
    /\ pc = "done" => /\ out.written = 1
                      /\ \A c \in Confs : fetches[c] = 1

\* main is left by the ValueError of a conference date of February 30, with
\* nothing written
C4_EndsWithValueError ==
    /\ pc = "crashed"
    /\ exc = "ValueError"
    /\ out.written = 0
    /\ \E e \in Range(data) : \E c \in Range(e.confs) : c.date = DateNoSuchDay

\* main is left by an exception only on a record known to raise one, and
\* otherwise writes the file once after all the fetches
C4_FatalOnlyOnRaisingRecords ==
    /\ pc = "crashed" => remote[idx] \in RaisingAnswers
    /\ out.written <= 1
    /\ pc = "done" => /\ out.written = 1
                      /\ \A c \in Confs : fetches[c] = 1

(***************************************************************************)
(* C5, C6: the status of an edition                                        *)
(***************************************************************************)
\* No deadline of the timeline parses (an empty timeline included)
NoParsableDeadline(timeline) ==
    \A i \in DOMAIN timeline : ~Parses(timeline[i])

\* The end date of the conference of edition c is known and on or after the
\* UTC date of now
ConferenceToCome(entry, c, now) ==
    LET end == parse_conf_end_date(StrOr(c.date, entry.date), c.year)
    IN  /\ ~IsExc(end)
        /\ end # None
        /\ end.ord >= now.day

\* The place, among the candidates, of edition i of the entry
PlaceOf(entry, i) ==
    Cardinality({ j \in 1..i : IsInt(entry.confs[j].year) })

\* r holds a candidate for edition i of the entry, which is open, has no
\* days-left value and shows 'TBD' in the Days column
OpenWithDaysTBD(entry, i, r) ==
    /\ ~IsExc(r)
    /\ PlaceOf(entry, i) \in DOMAIN r.list
    /\ r.list[PlaceOf(entry, i)].overall_status = "open"
    /\ r.list[PlaceOf(entry, i)].days_left = None
    /\ format_days_left(r.list[PlaceOf(entry, i)].days_left) = <<"TBD">>

\* What C5 asks of the result r of build_year_candidates(entry, now)
ClaimedTbdOpen(entry, now, r) ==
    \A i \in DOMAIN entry.confs :
        ( /\ IsInt(entry.confs[i].year)
          /\ NoParsableDeadline(entry.confs[i].timeline)
          /\ ConferenceToCome(entry, entry.confs[i], now) )
        => OpenWithDaysTBD(entry, i, r)

\* C5: an edition whose deadline is to be decided (its timeline is empty or
\* has no parsable deadline) and whose conference ends on or after today's
\* UTC date is classified as open, with a days-left value of None that the
\* Days column shows as 'TBD'.
C5_TbdBeforeConferenceIsOpen ==
    pc # "call" => ClaimedTbdOpen(inp.entry, inp.now, res)

\* build_year_candidates raises IndexError for an edition of 2026 with the
\* conference to come whose only deadline is blank
C5_RaisesForBlankDeadline ==
    /\ pc = "raised"
    /\ inp.entry.confs = <<EdBlankDeadline>>
    /\ res = Raise("IndexError")

\* Whenever build_year_candidates returns, C5 holds of what it returns
C5_HoldsWhenItReturns ==
    pc = "returned" => ClaimedTbdOpen(inp.entry, inp.now, res)

\* An edition without a parsable deadline whose conference ends today is open
C5_ReturnsOpenWithDaysTBD ==
    /\ pc = "returned"
    /\ inp.entry.confs = <<Edition([int |-> 2024], DateToday, <<>>, <<Item(DdlJunk)>>)>>
    /\ OpenWithDaysTBD(inp.entry, 1, res)

\* The end date of the conference of candidate c
EndDateOf(c) == parse_conf_end_date(c.date_str, [int |-> c.year])

\* C6: every edition built by build_year_candidates has one overall status
\* out of open, on_the_way and finished: open if and only if its deadline
\* status is open; otherwise on_the_way if and only if its conference end
\* date is known and on or after today's UTC date; otherwise finished.
C6_OverallStatusByRule ==
    pc = "returned" =>
        \A k \in DOMAIN res.list :
            /\ res.list[k].overall_status \in {"open", "on_the_way", "finished"}
            /\ (res.list[k].overall_status = "open")
                   <=> (res.list[k].deadline_status = "open")
            /\ (res.list[k].overall_status = "on_the_way")
                   <=> /\ res.list[k].deadline_status # "open"
                       /\ EndDateOf(res.list[k]) # None
                       /\ EndDateOf(res.list[k]).ord >= inp.now.day

\* Two editions are built, one on the way (deadline passed, conference ending
\* today) and one open
C6_Witness ==
    /\ pc = "returned"
    /\ Len(res.list) = 2
    /\ res.list[1].deadline_status = "passed"
    /\ res.list[1].overall_status = "on_the_way"
    /\ EndDateOf(res.list[1]).ord = inp.now.day
    /\ res.list[2].overall_status = "open"

\* An edition is built whose deadline has passed and whose conference ended
\* yesterday: it is finished
C6_WitnessFinished ==
    /\ pc = "returned"
    /\ Len(res.list) = 1
    /\ res.list[1].deadline_status = "passed"
    /\ EndDateOf(res.list[1]).ord = inp.now.day - 1
    /\ res.list[1].overall_status = "finished"

\* The labels of the target conferences in ascending order
LabelsAscending ==
    << <<"A","A","A","I">>, <<"B","I","B","M">>, <<"B","M","V","C">>,
       <<"C","V","P","R">>, <<"E","C","C","V">>, <<"E","M","N","L","P">>,
       <<"I","C","A","P","S">>, <<"I","C","A","S","S","P">>,
       <<"I","C","C","V">>, <<"I","J","C","A","I">>, <<"I","S","B","I">>,
       <<"M","I","C","C","A","I">>, <<"N","e","u","I","P","S">>,
       <<"W","W","W">> >>

\* The place of a label in that order
LabelPlace(label) == CHOOSE i \in DOMAIN LabelsAscending : LabelsAscending[i] = label

\* Open rows first, then rows on the way, then finished rows
StatusPlace(overall_status) ==
    CASE overall_status = "open" -> 1
      [] overall_status = "on_the_way" -> 2
      [] overall_status = "finished" -> 3

\* Row a comes before row b in the default order
Before(a, b) ==
    \/ StatusPlace(a.overall_status) < StatusPlace(b.overall_status)
    \/ /\ StatusPlace(a.overall_status) = StatusPlace(b.overall_status)
       /\ LabelPlace(a.label) < LabelPlace(b.label)

\* C7: the rows of the generated table are the rows main built, in the
\* default order (by status: open, on the way, finished; within a status by
\* label, ascending), with at most one row per target conference.
C7_TableInDefaultOrder ==
    pc = "done" =>
        /\ \A i, j \in DOMAIN out.table : i < j => Before(out.table[i], out.table[j])
        /\ \A c \in Confs : Len(RowsFor(out.table, c)) <= 1
        /\ \A i \in DOMAIN out.table :
              \E c \in Confs : out.table[i].label = TARGET_CONFS[c].label
        /\ Len(out.table) = Len(rows)
        /\ \A k \in DOMAIN rows : \E i \in DOMAIN out.table : out.table[i] = rows[k]

\* The table has CVPR and NeuIPS, both open, ahead of AAAI, finished, though
\* main fetched AAAI, NeuIPS and CVPR in this order
C7_Witness ==
    /\ pc = "done"
    /\ Len(out.table) = 3
    /\ out.table[1].label = <<"C","V","P","R">>
    /\ out.table[2].label = <<"N","e","u","I","P","S">>
    /\ out.table[3].label = <<"A","A","A","I">>
    /\ out.table[1].overall_status = "open"
    /\ out.table[2].overall_status = "open"
    /\ out.table[3].overall_status = "finished"
    /\ rows[1].label = <<"A","A","A","I">>

(***************************************************************************)
(* C8: the deadline picked from a timeline                                 *)
(***************************************************************************)
\* The UTC deadline of an item whose deadline parses, for a timezone of the
\* given offset in minutes
UtcDeadline(item, offset) ==
    ClaimedUtc(parse_deadline_local(item.deadline), offset)

\* What the claim asks of the result r for this timeline, offset and now
ClaimedPick(timeline, offset, now, r) ==
    LET parsed == { i \in DOMAIN timeline : Parses(timeline[i]) }
        future == { i \in parsed : DtLe(now, UtcDeadline(timeline[i], offset)) }
    IN  /\ ~IsExc(r)
        /\ IF future # {}
           THEN /\ r.status = "open"
                /\ \E i \in future :
                      /\ r.ddl_item = timeline[i]
                      /\ r.ddl_utc = UtcDeadline(timeline[i], offset)
                      /\ \A j \in future : DtLe(r.ddl_utc, UtcDeadline(timeline[j], offset))
           ELSE IF parsed # {}
           THEN /\ r.status = "passed"
                /\ \E i \in parsed :
                      /\ r.ddl_item = timeline[i]
                      /\ r.ddl_utc = UtcDeadline(timeline[i], offset)
                      /\ \A j \in parsed : DtLe(UtcDeadline(timeline[j], offset), r.ddl_utc)
           ELSE r = [ddl_item |-> None, ddl_utc |-> None, days_left |-> None,
                     status |-> "unknown"]

\* C8: pick_deadline_and_status, over the timeline items whose deadline
\* parses, returns the item with the earliest UTC deadline at or after now
\* and status 'open' when there is one, otherwise the item with the latest
\* UTC deadline and status 'passed'; for a timeline that is empty or in which
\* no deadline parses it returns no item, no deadline, no days-left and
\* status 'unknown'.
C8_EarliestOpenElseLatestPassed ==
    pc # "call" => ClaimedPick(inp.timeline, inp.tz.offset, inp.now, res)

\* pick_deadline_and_status raises IndexError for the timeline of one item
\* whose deadline is blank, in which no deadline parses
C8_RaisesForBlankDeadline ==
    /\ pc = "raised"
    /\ inp.timeline = <<Item(DdlBlank)>>
    /\ res = Raise("IndexError")

\* Whenever pick_deadline_and_status returns, it returns what the claim asks
C8_HoldsWhenItReturns ==
    pc = "returned" => ClaimedPick(inp.timeline, inp.tz.offset, inp.now, res)

\* pick_deadline_and_status raises only for a blank deadline or 'UTC+24'
C8_RaisesOnlyForBlankOrUtcPlus24 ==
    pc = "raised" =>
        \/ \E i \in DOMAIN inp.timeline : inp.timeline[i].deadline = DdlBlank
        \/ inp.tz.offset = 1440

(***************************************************************************)
(* C9: the end date of a conference                                        *)
(***************************************************************************)
\* December 31 of an integer year, None for any other year
ClaimedFallback(year) ==
    IF IsInt(year) THEN MkDate(year.int, 12, 31) ELSE None

\* The date a string states when that date is in the calendar, the fallback
\* when the string states no date or a day its month does not have
ClaimedEndDate(stated, year) ==
    IF stated # None /\ ValidDate(stated.y, stated.m, stated.d)
    THEN MkDate(stated.y, stated.m, stated.d)
    ELSE ClaimedFallback(year)

\* C9: parse_conf_end_date returns the last day of the range the string
\* states; for an empty string, a string with no date pattern, an unknown
\* month or a day that its month does not have, it returns December 31 of
\* the given year when that year is an integer and None otherwise.
C9_EndDateOrYearEnd ==
    pc # "call" => res = ClaimedEndDate(inp.date.stated, inp.year)

\* parse_conf_end_date raises ValueError for 'Feb 30, 2026'
C9_RaisesForFeb30 ==
    /\ pc = "raised"
    /\ inp.date.stated = [y |-> 2026, m |-> 2, d |-> 30]
    /\ res = Raise("ValueError")

\* Whenever parse_conf_end_date returns, it returns the claimed date
C9_HoldsWhenItReturns ==
    pc = "returned" => res = ClaimedEndDate(inp.date.stated, inp.year)

\* parse_conf_end_date raises only for a day that its month does not have
C9_RaisesOnlyForNoSuchDay ==
    pc = "raised" => /\ inp.date.stated # None
                     /\ ~ValidDate(inp.date.stated.y, inp.date.stated.m, inp.date.stated.d)

(***************************************************************************)
(* C10: timezone offsets in to_utc                                         *)
(***************************************************************************)
\* C10: to_utc gives the UTC instant obtained by subtracting the timezone's
\* offset from the local time, the offset being -12:00 for 'AoE',
\* sign * (H hours + MM minutes) for 'UTC+H', 'UTC-H', 'UTC+H:MM', 'UTC-H:MM'
\* and zero for an empty or unrecognised string.
C10_ToUtcSubtractsOffset ==
    pc # "call" => res = ClaimedUtc(inp.local_dt, inp.tz.offset)

\* to_utc raises ValueError for 'UTC+24' instead of returning an instant
C10_RaisesForUtcPlus24 ==
    /\ pc = "raised"
    /\ inp.tz.tz_str = <<"U","T","C","+","2","4">>
    /\ res = Raise("ValueError")

\* Whenever to_utc returns, it returns the instant the offset rule gives
C10_HoldsWhenItReturns ==
    pc = "returned" => res = ClaimedUtc(inp.local_dt, inp.tz.offset)

\* to_utc returns for every timezone string but 'UTC+24'
C10_OnlyUtcPlus24Raises ==
    pc = "raised" => inp.tz.offset = 1440

(***************************************************************************)
(* C11: the days left and the status                                       *)
(***************************************************************************)
\* The Days column reads 'N days left'
ShowsDaysLeft(days_left) ==
    /\ Len(format_days_left(days_left)) = 2
    /\ format_days_left(days_left)[2] = " days left"

\* The Days column reads 'N days ago'
ShowsDaysAgo(days_left) ==
    /\ Len(format_days_left(days_left)) = 2
    /\ format_days_left(days_left)[2] = " days ago"

\* C11: the days-left value of every edition built by build_year_candidates
\* agrees in sign with its status: None or >= 0 when the edition is open,
\* None or <= 0 when it is on the way or finished; so the Days column reads
\* 'N days left' only for an open edition and 'N days ago' only for one that
\* is not open.
C11_DaysLeftAgreesWithStatus ==
    pc = "returned" =>
        \A k \in DOMAIN res.list :
            /\ res.list[k].overall_status = "open" =>
                  \/ res.list[k].days_left = None
                  \/ res.list[k].days_left.int >= 0
            /\ res.list[k].overall_status \in {"on_the_way", "finished"} =>
                  \/ res.list[k].days_left = None
                  \/ res.list[k].days_left.int <= 0
            /\ ShowsDaysLeft(res.list[k].days_left) =>
                  res.list[k].overall_status = "open"
            /\ ShowsDaysAgo(res.list[k].days_left) =>
                  res.list[k].overall_status # "open"

\* Two editions are built: an open one whose deadline is days ahead, shown
\* as 'N days left', and one on the way whose deadline is days behind, shown
\* as 'N days ago'
C11_Witness ==
    /\ pc = "returned"
    /\ Len(res.list) = 2
    /\ res.list[1].overall_status = "open"
    /\ res.list[1].days_left # None
    /\ res.list[1].days_left.int > 0
    /\ ShowsDaysLeft(res.list[1].days_left)
    /\ res.list[2].overall_status = "on_the_way"
    /\ res.list[2].days_left # None
    /\ res.list[2].days_left.int < 0
    /\ ShowsDaysAgo(res.list[2].days_left)

\* An edition is built whose deadline passed earlier today: it is not open
\* and its days-left value is 0
C11_WitnessPassedToday ==
    /\ pc = "returned"
    /\ Len(res.list) = 1
    /\ res.list[1].deadline_status = "passed"
    /\ res.list[1].days_left = [int |-> 0]

\* An edition is built that is open with its deadline later today: its
\* days-left value is 0
C11_WitnessOpenToday ==
    /\ pc = "returned"
    /\ Len(res.list) = 1
    /\ res.list[1].deadline_status = "open"
    /\ res.list[1].days_left = [int |-> 0]

====
